---- MODULE Spec2Model ----
(***************************************************************************)
(* Model of src/src/Matrix3.ts: the 3x3 matrix class `Matrix3`, a          *)
(* Float64Array of nine numbers stored column by column (flat index 3*j+i  *)
(* holds row i, column j).                                                 *)
(*                                                                         *)
(* Numbers are modelled by integers.  On the small integers used here      *)
(* every +, - and * of the source is exact in double precision, so the     *)
(* model computes what the code computes.  The reciprocal `1.0 / det` of   *)
(* inv() is an integer only for det = 1 and det = -1; calls that would     *)
(* need another reciprocal are outside the model's value domain and are    *)
(* not enabled (see ExactInv).  NaN and the infinities are not modelled.   *)
(*                                                                         *)
(* One Matrix3 instance (the receiver) is constructed from row-major       *)
(* arguments, then one method is called on it.  The state records the      *)
(* receiver's entries before and after the call, the arguments, the        *)
(* returned value and the caller's Vector3 instance.                       *)
(***************************************************************************)
EXTENDS Integers, Sequences, FiniteSets, TLC

VARIABLES
    mat,    \* the receiver's nine entries, indexed 0..8 as in the source
    old,    \* the receiver's entries before the call
    ctor,   \* the row-major arguments the receiver was constructed from
    op,     \* "init" after construction, then the name of the method called
    argM,   \* the Matrix3 argument: [alias |-> is it the receiver, val |-> entries before the call]
    argN,   \* the number arguments of the call, in order
    vec,    \* the caller's Vector3 / rows / columns argument after the call
    oldv,   \* the same before the call
    ret     \* the returned value: [kind, val]

vars == <<mat, old, ctor, op, argM, argN, vec, oldv, ret>>

----------------------------------------------------------------------------
(* Bounds *)

\* entries of the constructed inputs and the scalar arguments range over -MaxVal..MaxVal
MaxVal == 1
\* exponents of pow range over -MaxExp..MaxExp
MaxExp == 4

Vals == (0 - MaxVal)..MaxVal
Exps == (0 - MaxExp)..MaxExp

Abs(n) == IF n < 0 THEN 0 - n ELSE n

----------------------------------------------------------------------------
(* Values *)

\* a zero-based array: Arr(<<a, b, c>>)[0] = a
Arr(s) == [k \in 0..(Len(s) - 1) |-> s[k + 1]]

\* new Vector3(x, y, z): components [0], [1], [2]
Vector3(x, y, z) == Arr(<<x, y, z>>)

\* u.clone() of Vector3: an independent copy with the same components
Vector3_clone(u) == Vector3(u[0], u[1], u[2])

\* constructor(xx, xy, xz, yx, yy, yz, zx, zy, zz): row-major arguments, column-major storage
NewMatrix3(xx, xy, xz, yx, yy, yz, zx, zy, zz) ==
    [k \in 0..8 |->
        CASE k = 0 -> xx
          [] k = 1 -> yx
          [] k = 2 -> zx
          [] k = 3 -> xy
          [] k = 4 -> yy
          [] k = 5 -> zy
          [] k = 6 -> xz
          [] k = 7 -> yz
          [] k = 8 -> zz]

\* the constructor applied to a tuple of nine row-major arguments
Construct(a) == NewMatrix3(a[1], a[2], a[3], a[4], a[5], a[6], a[7], a[8], a[9])

----------------------------------------------------------------------------
(* Accessors *)

\* get x, get y, get z
get_x(this) == Vector3(this[0], this[1], this[2])
get_y(this) == Vector3(this[3], this[4], this[5])
get_z(this) == Vector3(this[6], this[7], this[8])

\* set x, set y, set z
set_x(this, newX) == [this EXCEPT ![0] = newX[0], ![3] = newX[1], ![6] = newX[2]]
set_y(this, newY) == [this EXCEPT ![1] = newY[0], ![4] = newY[1], ![7] = newY[2]]
set_z(this, newZ) == [this EXCEPT ![2] = newZ[0], ![5] = newZ[1], ![8] = newZ[2]]

\* get xyz: the rows of the matrix as vectors
get_xyz(this) ==
    Arr(<<Vector3(this[0], this[3], this[6]),
          Vector3(this[1], this[4], this[7]),
          Vector3(this[2], this[5], this[8])>>)

set_xyz(this, rows) ==
    [this EXCEPT ![0] = rows[0][0], ![1] = rows[1][0], ![2] = rows[2][0],
                 ![3] = rows[0][1], ![4] = rows[1][1], ![5] = rows[2][1],
                 ![6] = rows[0][2], ![7] = rows[1][2], ![8] = rows[2][2]]

\* get xyzt: the columns of the matrix as vectors
get_xyzt(this) ==
    Arr(<<Vector3(this[0], this[1], this[2]),
          Vector3(this[3], this[4], this[5]),
          Vector3(this[6], this[7], this[8])>>)

set_xyzt(this, cols) ==
    [this EXCEPT ![0] = cols[0][0], ![1] = cols[0][1], ![2] = cols[0][2],
                 ![3] = cols[1][0], ![4] = cols[1][1], ![5] = cols[1][2],
                 ![6] = cols[2][0], ![7] = cols[2][1], ![8] = cols[2][2]]

\* get det
det(this) ==
    LET mxx == this[0]
        myx == this[1]
        mzx == this[2]
        mxy == this[3]
        myy == this[4]
        mzy == this[5]
        mxz == this[6]
        myz == this[7]
        mzz == this[8]
    IN  mxx * (mzz * myy - mzy * myz) + myx * ((0 - mzz) * mxy + mzy * mxz)
          + mzx * (myz * mxy - myy * mxz)

\* array(): [...this], the nine entries in storage order
array(this) ==
    Arr(<<this[0], this[1], this[2], this[3], this[4], this[5], this[6], this[7], this[8]>>)

\* assign(xx, ..., zz): sets all the components from row-major arguments
assign(this, xx, xy, xz, yx, yy, yz, zx, zy, zz) ==
    [this EXCEPT ![0] = xx, ![1] = yx, ![2] = zx,
                 ![3] = xy, ![4] = yy, ![5] = zy,
                 ![6] = xz, ![7] = yz, ![8] = zz]

\* clone() passing the entries to the constructor in storage order
clone_storageOrder(this) ==
    NewMatrix3(this[0], this[1], this[2],
               this[3], this[4], this[5],
               this[6], this[7], this[8])

\* clone(): a new instance from this[0], this[3], this[6], this[1], ... as row-major arguments
clone(this) ==
    NewMatrix3(this[0], this[3], this[6],
               this[1], this[4], this[7],
               this[2], this[5], this[8])

\* row(i) reading three contiguous entries
row_contiguous(this, i) == Arr(<<this[3 * i], this[3 * i + 1], this[3 * i + 2]>>)

\* row(i), col(j)
row(this, i) == Arr(<<this[i], this[3 + i], this[6 + i]>>)

col(this, j) ==
    LET shift == 3 * j
    IN  Arr(<<this[shift], this[1 + shift], this[2 + shift]>>)

----------------------------------------------------------------------------
(* Arithmetic, mutating forms: each returns the new entries of the receiver *)

fill(this, s) == [k \in 0..8 |-> s]

add(this, m) == [k \in 0..8 |-> this[k] + m[k]]

sub(this, m) == [k \in 0..8 |-> this[k] - m[k]]

neg(this) == [k \in 0..8 |-> this[k] * (0 - 1)]

mul(this, s) == [k \in 0..8 |-> this[k] * s]

lerp(this, m, t) == [k \in 0..8 |-> this[k] + (m[k] - this[k]) * t]

\* trans() without the three temporaries
trans_noTemp(this) ==
    [this EXCEPT ![1] = this[3], ![2] = this[6], ![5] = this[7]]

trans(this) ==
    LET mxy == this[1]
        mxz == this[2]
        myz == this[5]
    IN  [this EXCEPT ![1] = this[3], ![2] = this[6], ![3] = mxy,
                     ![5] = this[7], ![6] = mxz, ![7] = myz]

\* prod() computing the left product m x this
prod_left(this, m) ==
    [n \in 0..8 |->
        m[n % 3] * this[3 * (n \div 3)]
            + m[3 + (n % 3)] * this[3 * (n \div 3) + 1]
            + m[6 + (n % 3)] * this[3 * (n \div 3) + 2]]

prod(this, m) ==
    LET xx == this[0]
        yx == this[1]
        zx == this[2]
        xy == this[3]
        yy == this[4]
        zy == this[5]
        xz == this[6]
        yz == this[7]
        zz == this[8]
        mxx == m[0]
        myx == m[1]
        mzx == m[2]
        mxy == m[3]
        myy == m[4]
        mzy == m[5]
        mxz == m[6]
        myz == m[7]
        mzz == m[8]
    IN  Arr(<<mxx * xx + myx * xy + mzx * xz,
              mxx * yx + myx * yy + mzx * yz,
              mxx * zx + myx * zy + mzx * zz,
              mxy * xx + myy * xy + mzy * xz,
              mxy * yx + myy * yy + mzy * yz,
              mxy * zx + myy * zy + mzy * zz,
              mxz * xx + myz * xy + mzz * xz,
              mxz * yx + myz * yy + mzz * yz,
              mxz * zx + myz * zy + mzz * zz>>)

\* 1.0 / det, for the determinants whose reciprocal is an integer
Recip(d) == CASE d = 1 -> 1 [] d = 0 - 1 -> 0 - 1

\* inv() returning the receiver, not undefined, when the determinant is zero
inv_returnsThis(this) ==
    LET xx == this[0]
        yx == this[1]
        zx == this[2]
        xy == this[3]
        yy == this[4]
        zy == this[5]
        xz == this[6]
        yz == this[7]
        zz == this[8]
        dyx == zz * yy - zy * yz
        dyy == (0 - zz) * xy + zy * xz
        dyz == yz * xy - yy * xz
        det0 == xx * dyx + yx * dyy + zx * dyz
    IN  IF det0 = 0
        THEN [ret |-> "this", this |-> this]
        ELSE LET det1 == Recip(det0)
             IN  [ret |-> "this",
                  this |-> Arr(<<dyx * det1,
                                 ((0 - zz) * yx + zx * yz) * det1,
                                 (zy * yx - zx * yy) * det1,
                                 dyy * det1,
                                 (zz * xx - zx * xz) * det1,
                                 ((0 - zy) * xx + zx * xy) * det1,
                                 dyz * det1,
                                 ((0 - yz) * xx + yx * xz) * det1,
                                 (yy * xx - yx * xy) * det1>>)]

\* inv() with the sign of the cofactor written to this[7] flipped
inv_signSlip(this) ==
    LET xx == this[0]
        yx == this[1]
        zx == this[2]
        xy == this[3]
        yy == this[4]
        zy == this[5]
        xz == this[6]
        yz == this[7]
        zz == this[8]
        dyx == zz * yy - zy * yz
        dyy == (0 - zz) * xy + zy * xz
        dyz == yz * xy - yy * xz
        det0 == xx * dyx + yx * dyy + zx * dyz
    IN  IF det0 = 0
        THEN [ret |-> "undefined", this |-> this]
        ELSE LET det1 == Recip(det0)
             IN  [ret |-> "this",
                  this |-> Arr(<<dyx * det1,
                                 ((0 - zz) * yx + zx * yz) * det1,
                                 (zy * yx - zx * yy) * det1,
                                 dyy * det1,
                                 (zz * xx - zx * xz) * det1,
                                 ((0 - zy) * xx + zx * xy) * det1,
                                 dyz * det1,
                                 (yz * xx - yx * xz) * det1,
                                 (yy * xx - yx * xy) * det1>>)]

\* inv(): [ret |-> what is returned, this |-> the receiver's entries afterwards]
inv(this) ==
    LET xx == this[0]
        yx == this[1]
        zx == this[2]
        xy == this[3]
        yy == this[4]
        zy == this[5]
        xz == this[6]
        yz == this[7]
        zz == this[8]
        dyx == zz * yy - zy * yz
        dyy == (0 - zz) * xy + zy * xz
        dyz == yz * xy - yy * xz
        det0 == xx * dyx + yx * dyy + zx * dyz
    IN  IF det0 = 0
        THEN [ret |-> "undefined", this |-> this]
        ELSE LET det1 == Recip(det0)
             IN  [ret |-> "this",
                  this |-> Arr(<<dyx * det1,
                                 ((0 - zz) * yx + zx * yz) * det1,
                                 (zy * yx - zx * yy) * det1,
                                 dyy * det1,
                                 (zz * xx - zx * xz) * det1,
                                 ((0 - zy) * xx + zx * xy) * det1,
                                 dyz * det1,
                                 ((0 - yz) * xx + yx * xz) * det1,
                                 (yy * xx - yx * xy) * det1>>)]

\* at(u) reading u[0] and u[1] after they were overwritten
at_noSnapshot(this, u) ==
    LET u0 == this[0] * u[0] + this[3] * u[1] + this[6] * u[2]
        u1 == this[1] * u0 + this[4] * u[1] + this[7] * u[2]
        u2 == this[2] * u0 + this[5] * u1 + this[8] * u[2]
    IN  Vector3(u0, u1, u2)

\* at(u): the new components of u
at(this, u) ==
    LET ux == u[0]
        uy == u[1]
        uz == u[2]
    IN  Vector3(this[0] * ux + this[3] * uy + this[6] * uz,
                this[1] * ux + this[4] * uy + this[7] * uz,
                this[2] * ux + this[5] * uy + this[8] * uz)

\* rpow(exp) without the product by the copy for an odd exponent
RECURSIVE rpow_noOddFactor(_, _)
rpow_noOddFactor(this, exp) ==
    IF exp > 1
    THEN LET copy == clone(this)
             squared == prod(this, copy)
         IN  IF exp % 2 = 0
             THEN rpow_noOddFactor(squared, exp \div 2)
             ELSE rpow_noOddFactor(squared, (exp - 1) \div 2)
    ELSE this

\* rpow(exp): the receiver's entries after the call
RECURSIVE rpow(_, _)
rpow(this, exp) ==
    IF exp > 1
    THEN LET copy == clone(this)
             squared == prod(this, copy)
         IN  IF exp % 2 = 0
             THEN rpow(squared, exp \div 2)
             ELSE IF exp % 2 = 1
                  THEN prod(rpow(squared, (exp - 1) \div 2), copy)
                  ELSE squared
    ELSE this

\* pow(exp) giving up, with the receiver untouched, when the inversion fails
pow_stopsOnSingular(this, exp) ==
    IF exp < 0 /\ inv(this).ret = "undefined"
    THEN this
    ELSE LET inverted == IF exp < 0 THEN inv(this).this ELSE this
             reset == IF exp = 0 THEN assign(inverted, 1, 0, 0, 0, 1, 0, 0, 0, 1) ELSE inverted
         IN  rpow(reset, Abs(exp))

\* pow(exp): the receiver's entries after the call (pow always returns this)
pow(this, exp) ==
    LET inverted == IF exp < 0 THEN inv(this).this ELSE this
        reset == IF exp = 0 THEN assign(inverted, 1, 0, 0, 0, 1, 0, 0, 0, 1) ELSE inverted
    IN  rpow(reset, Abs(exp))

\* adj() with the sign of the cofactor written to this[5] flipped
adj_signSlip(this) ==
    LET xx == this[0]
        yx == this[1]
        zx == this[2]
        xy == this[3]
        yy == this[4]
        zy == this[5]
        xz == this[6]
        yz == this[7]
        zz == this[8]
    IN  Arr(<<yy * zz - zy * yz,
              zx * yz - yx * zz,
              yx * zy - zx * yy,
              zy * xz - xy * zz,
              xx * zz - zx * xz,
              xx * zy - zx * xy,
              xy * yz - yy * xz,
              yx * xz - xx * yz,
              xx * yy - yx * xy>>)

adj(this) ==
    LET xx == this[0]
        yx == this[1]
        zx == this[2]
        xy == this[3]
        yy == this[4]
        zy == this[5]
        xz == this[6]
        yz == this[7]
        zz == this[8]
    IN  Arr(<<yy * zz - zy * yz,
              zx * yz - yx * zz,
              yx * zy - zx * yy,
              zy * xz - xy * zz,
              xx * zz - zx * xz,
              zx * xy - xx * zy,
              xy * yz - yy * xz,
              yx * xz - xx * yz,
              xx * yy - yx * xy>>)

----------------------------------------------------------------------------
(* Copying forms: the entries of the returned instance *)

fillc(this, s) == fill(clone(this), s)
addc(this, m) == add(clone(this), m)
subc(this, m) == sub(clone(this), m)
negc(this) == neg(clone(this))
mulc(this, s) == mul(clone(this), s)
lerpc(this, m, t) == lerp(clone(this), m, t)
transc(this) == trans(clone(this))
prodc(this, m) == prod(clone(this), m)
invc(this) == inv(clone(this))
powc(this, exp) == pow(clone(this), exp)
adjc(this) == adj(clone(this))
atc(this, u) == at(this, Vector3_clone(u))

----------------------------------------------------------------------------
(* Generators *)

Matrix3_zeros == NewMatrix3(0, 0, 0, 0, 0, 0, 0, 0, 0)
Matrix3_eye == NewMatrix3(1, 0, 0, 0, 1, 0, 0, 0, 1)

Matrix3_e(i, j) ==
    LET eij == NewMatrix3(0, 0, 0, 0, 0, 0, 0, 0, 0)
    IN  [eij EXCEPT ![3 * j + i] = 1]

\* rotZ(theta, cos, sin) with c = cos(theta), s = sin(theta)
Matrix3_rotZ(c, s) == NewMatrix3(c, 0 - s, 0, s, c, 0, 0, 0, 1)

\* static array(arr): arr holds the components ordered as rows
Matrix3_array(arr) ==
    NewMatrix3(arr[0], arr[1], arr[2],
               arr[3], arr[4], arr[5],
               arr[6], arr[7], arr[8])

----------------------------------------------------------------------------
(* Inputs *)

\* row-major constructor arguments of the receivers
ArgsDiag == {<<x, 0, 0, 0, y, 0, 0, 0, z>> : x \in Vals, y \in Vals, z \in Vals}
ArgsUpper == {<<1, x, y, 0, 1, z, 0, 0, 1>> : x \in Vals, y \in Vals, z \in Vals}
ArgsDense == {<<1, x, 0, y, x * y + 1, z, 0, y, y * z + 1>> : x \in Vals, y \in Vals, z \in Vals}
ArgsMirror == {<<x, 1, 0, 1, 0, y, 0, z, 1>> : x \in Vals, y \in Vals, z \in Vals}
ArgsUnit == {[k \in 1..9 |-> IF k = n THEN 1 ELSE 0] : n \in 1..9}
ArgsCount == {[k \in 1..9 |-> k + d] : d \in Vals}
ArgsRot == {<<1, 0, 0, 0, 1, 0, 0, 0, 1>>, <<0, 0 - 1, 0, 1, 0, 0, 0, 0, 1>>,
            <<0 - 1, 0, 0, 0, 0 - 1, 0, 0, 0, 1>>, <<0, 1, 0, 0 - 1, 0, 0, 0, 0, 1>>,
            <<0, 1, 0, 0, 0, 1, 1, 0, 0>>, <<0, 1, 0, 1, 0, 0, 0, 0, 1>>,
            <<1, 1, 1, 1, 1, 1, 1, 1, 1>>}
InputArgs ==
    ArgsDiag \cup ArgsUpper \cup ArgsDense \cup ArgsMirror \cup ArgsUnit \cup ArgsCount \cup ArgsRot

\* entries of the Matrix3 instances passed as arguments
ArgMats ==
    {Construct(<<1, x, 0, x, 1, 2, 0, 0 - 1, 1>>) : x \in Vals}
        \cup {Construct(<<1, 2, 3, 4, 5, 6, 7, 8, 9>>), Matrix3_eye, Matrix3_zeros}

\* a Matrix3 argument: the receiver itself, or another instance
Args(this) ==
    {[alias |-> TRUE, val |-> this]} \cup {[alias |-> FALSE, val |-> m] : m \in ArgMats}

\* components of the Vector3 instances passed as arguments
Vecs == {Vector3(1, 0, 0)} \cup {Vector3(x, 2, y) : x \in Vals, y \in Vals}

\* triples of Vector3 passed to the xyz and xyzt setters
Triples ==
    {Arr(<<Vector3(1, 2, 3), Vector3(4, 5, 6), Vector3(7, 8, 9)>>)}
        \cup {Arr(<<Vector3(x, 0, 1), Vector3(2, x, 0), Vector3(0, 3, x)>>) : x \in Vals}

\* the values of (cos(theta), sin(theta)) injected into rotZ
Trig == {<<1, 0>>, <<0, 1>>, <<0 - 1, 0>>, <<0, 0 - 1>>}

\* inv() computes 1.0 / det: an integer for det = 1 and det = -1 (det = 0 returns before)
ExactInv(this) == det(this) \in {0 - 1, 0, 1}

----------------------------------------------------------------------------
(* Returned values *)

RetNone == [kind |-> "none", val |-> 0]
\* the receiver instance itself
RetThis == [kind |-> "this", val |-> 0]
\* a Matrix3 instance created by the call
RetNew(m) == [kind |-> "new", val |-> m]
RetUndefined == [kind |-> "undefined", val |-> 0]
\* the Vector3 instance passed as argument
RetArg == [kind |-> "arg", val |-> 0]
\* a Vector3, array or number created by the call
RetValue(x) == [kind |-> "value", val |-> x]

NoArg == [alias |-> FALSE, val |-> Matrix3_zeros]

----------------------------------------------------------------------------
(* State machine *)

Init ==
    \E a \in InputArgs :
        /\ ctor = a
        /\ mat = Construct(a)
        /\ old = Construct(a)
        /\ op = "init"
        /\ argM = NoArg
        /\ argN = <<>>
        /\ vec = <<>>
        /\ oldv = <<>>
        /\ ret = RetNone

\* one call on the constructed receiver: its name, the receiver afterwards, the
\* arguments, the caller's vectors before and after, the returned value
Call(name, newMat, m, n, v0, v1, r) ==
    /\ op = "init"
    /\ op' = name
    /\ old' = mat
    /\ mat' = newMat
    /\ argM' = m
    /\ argN' = n
    /\ oldv' = v0
    /\ vec' = v1
    /\ ret' = r
    /\ UNCHANGED ctor

GetX == Call("get x", mat, NoArg, <<>>, <<>>, <<>>, RetValue(get_x(mat)))
GetY == Call("get y", mat, NoArg, <<>>, <<>>, <<>>, RetValue(get_y(mat)))
GetZ == Call("get z", mat, NoArg, <<>>, <<>>, <<>>, RetValue(get_z(mat)))
SetX == \E w \in Vecs : Call("set x", set_x(mat, w), NoArg, <<>>, w, w, RetNone)
SetY == \E w \in Vecs : Call("set y", set_y(mat, w), NoArg, <<>>, w, w, RetNone)
SetZ == \E w \in Vecs : Call("set z", set_z(mat, w), NoArg, <<>>, w, w, RetNone)
GetXyz == Call("get xyz", mat, NoArg, <<>>, <<>>, <<>>, RetValue(get_xyz(mat)))
SetXyz == \E w \in Triples : Call("set xyz", set_xyz(mat, w), NoArg, <<>>, w, w, RetNone)
GetXyzt == Call("get xyzt", mat, NoArg, <<>>, <<>>, <<>>, RetValue(get_xyzt(mat)))
SetXyzt == \E w \in Triples : Call("set xyzt", set_xyzt(mat, w), NoArg, <<>>, w, w, RetNone)
GetDet == Call("get det", mat, NoArg, <<>>, <<>>, <<>>, RetValue(det(mat)))
Array == Call("array", mat, NoArg, <<>>, <<>>, <<>>, RetValue(array(mat)))
Assign ==
    \E a \in ArgsCount \cup ArgsRot :
        Call("assign", assign(mat, a[1], a[2], a[3], a[4], a[5], a[6], a[7], a[8], a[9]),
             NoArg, a, <<>>, <<>>, RetThis)
Clone == Call("clone", mat, NoArg, <<>>, <<>>, <<>>, RetNew(clone(mat)))
Row == \E i \in 0..2 : Call("row", mat, NoArg, <<i>>, <<>>, <<>>, RetValue(row(mat, i)))
Col == \E j \in 0..2 : Call("col", mat, NoArg, <<j>>, <<>>, <<>>, RetValue(col(mat, j)))

Fill == \E s \in Vals : Call("fill", fill(mat, s), NoArg, <<s>>, <<>>, <<>>, RetThis)
Fillc == \E s \in Vals : Call("fillc", mat, NoArg, <<s>>, <<>>, <<>>, RetNew(fillc(mat, s)))
Add == \E m \in Args(mat) : Call("add", add(mat, m.val), m, <<>>, <<>>, <<>>, RetThis)
Addc == \E m \in Args(mat) : Call("addc", mat, m, <<>>, <<>>, <<>>, RetNew(addc(mat, m.val)))
Sub == \E m \in Args(mat) : Call("sub", sub(mat, m.val), m, <<>>, <<>>, <<>>, RetThis)
Subc == \E m \in Args(mat) : Call("subc", mat, m, <<>>, <<>>, <<>>, RetNew(subc(mat, m.val)))
Neg == Call("neg", neg(mat), NoArg, <<>>, <<>>, <<>>, RetThis)
Negc == Call("negc", mat, NoArg, <<>>, <<>>, <<>>, RetNew(negc(mat)))
Mul == \E s \in Vals : Call("mul", mul(mat, s), NoArg, <<s>>, <<>>, <<>>, RetThis)
Mulc == \E s \in Vals : Call("mulc", mat, NoArg, <<s>>, <<>>, <<>>, RetNew(mulc(mat, s)))
Lerp ==
    \E m \in Args(mat), t \in Vals :
        Call("lerp", lerp(mat, m.val, t), m, <<t>>, <<>>, <<>>, RetThis)
Lerpc ==
    \E m \in Args(mat), t \in Vals :
        Call("lerpc", mat, m, <<t>>, <<>>, <<>>, RetNew(lerpc(mat, m.val, t)))
Trans == Call("trans", trans(mat), NoArg, <<>>, <<>>, <<>>, RetThis)
Transc == Call("transc", mat, NoArg, <<>>, <<>>, <<>>, RetNew(transc(mat)))
Prod == \E m \in Args(mat) : Call("prod", prod(mat, m.val), m, <<>>, <<>>, <<>>, RetThis)
Prodc == \E m \in Args(mat) : Call("prodc", mat, m, <<>>, <<>>, <<>>, RetNew(prodc(mat, m.val)))
Inv ==
    /\ op = "init"
    /\ ExactInv(mat)
    /\ Call("inv", inv(mat).this, NoArg, <<>>, <<>>, <<>>,
            IF inv(mat).ret = "undefined" THEN RetUndefined ELSE RetThis)
Invc ==
    /\ op = "init"
    /\ ExactInv(mat)
    /\ Call("invc", mat, NoArg, <<>>, <<>>, <<>>,
            IF invc(mat).ret = "undefined" THEN RetUndefined ELSE RetNew(invc(mat).this))
At == \E w \in Vecs : Call("at", mat, NoArg, <<>>, w, at(mat, w), RetArg)
Atc == \E w \in Vecs : Call("atc", mat, NoArg, <<>>, w, w, RetValue(atc(mat, w)))
Pow ==
    \E exp \in Exps :
        /\ op = "init"
        /\ exp < 0 => ExactInv(mat)
        /\ Call("pow", pow(mat, exp), NoArg, <<exp>>, <<>>, <<>>, RetThis)
Powc ==
    \E exp \in Exps :
        /\ op = "init"
        /\ exp < 0 => ExactInv(mat)
        /\ Call("powc", mat, NoArg, <<exp>>, <<>>, <<>>, RetNew(powc(mat, exp)))
Adj == Call("adj", adj(mat), NoArg, <<>>, <<>>, <<>>, RetThis)
Adjc == Call("adjc", mat, NoArg, <<>>, <<>>, <<>>, RetNew(adjc(mat)))

StaticE ==
    \E i \in 0..2, j \in 0..2 :
        Call("Matrix3.e", mat, NoArg, <<i, j>>, <<>>, <<>>, RetNew(Matrix3_e(i, j)))
StaticRotZ ==
    \E cs \in Trig :
        Call("Matrix3.rotZ", mat, NoArg, cs, <<>>, <<>>, RetNew(Matrix3_rotZ(cs[1], cs[2])))
StaticArray ==
    \E m \in ArgMats :
        Call("Matrix3.array", mat, NoArg, <<>>, array(m), array(m), RetNew(Matrix3_array(array(m))))

Next ==
    \/ GetX \/ GetY \/ GetZ \/ SetX \/ SetY \/ SetZ
    \/ GetXyz \/ SetXyz \/ GetXyzt \/ SetXyzt
    \/ GetDet \/ Array \/ Assign \/ Clone \/ Row \/ Col
    \/ Fill \/ Fillc \/ Add \/ Addc \/ Sub \/ Subc \/ Neg \/ Negc
    \/ Mul \/ Mulc \/ Lerp \/ Lerpc \/ Trans \/ Transc \/ Prod \/ Prodc
    \/ Inv \/ Invc \/ At \/ Atc \/ Pow \/ Powc \/ Adj \/ Adjc
    \/ StaticE \/ StaticRotZ \/ StaticArray

Spec == Init /\ [][Next]_vars

----------------------------------------------------------------------------
(* Properties *)

\* the entry at row i, column j
Entry(m, i, j) == m[3 * j + i]

\* the matrix product a x b, entry by entry
Times(a, b) ==
    [n \in 0..8 |->
        Entry(a, n % 3, 0) * Entry(b, 0, n \div 3)
            + Entry(a, n % 3, 1) * Entry(b, 1, n \div 3)
            + Entry(a, n % 3, 2) * Entry(b, 2, n \div 3)]

Identity == [n \in 0..8 |-> IF n \in {0, 4, 8} THEN 1 ELSE 0]

C2_InverseProduct ==
    /\ (op = "inv" /\ ret = RetThis) =>
            /\ prod(old, mat) = Identity
            /\ prod(mat, old) = Identity
    /\ (op = "invc" /\ ret.kind = "new") =>
            /\ prod(old, ret.val) = Identity
            /\ prod(ret.val, old) = Identity
    /\ (op = "inv" /\ old = Matrix3_eye) => (ret = RetThis /\ mat = Matrix3_eye)

\* invc() inverted a matrix of determinant -1 that is not its own transpose
C2_Witness ==
    /\ op = "invc"
    /\ ret.kind = "new"
    /\ det(old) = 0 - 1
    /\ old # trans(old)

\* C3: prod(m) leaves the receiver equal to (old receiver) x m, each entry
\* (i, j) being the sum over k of old(i, k) * m(k, j) of the original entries,
\* also when m is the receiver itself; M.prod(Identity) = M and
\* Identity.prod(M) = M.
C3_ProdRight ==
    op = "prod" =>
        /\ \A i \in 0..2, j \in 0..2 :
                mat[3 * j + i] =
                    Entry(old, i, 0) * Entry(argM.val, 0, j)
                        + Entry(old, i, 1) * Entry(argM.val, 1, j)
                        + Entry(old, i, 2) * Entry(argM.val, 2, j)
        /\ argM.alias => mat = Times(old, old)
        /\ argM.val = Identity => mat = old
        /\ old = Identity => mat = argM.val
        /\ ret = RetThis

\* prod() was called with the receiver as its own argument, on a matrix that
\* does not commute with its transpose
C3_Witness ==
    /\ op = "prod"
    /\ argM.alias
    /\ old # trans(old)
    /\ mat # old
    /\ mat = Times(old, old)

\* C4: the round trip through the flat array: Matrix3.array(M.array()) has the
\* nine entries of M.
C4_ArrayRoundTrip ==
    op = "array" => Matrix3_array(ret.val) = mat

\* the columns of the matrix whose rows are rows[0], rows[1], rows[2]
ColumnsOf(rows) ==
    Arr(<<Vector3(rows[0][0], rows[1][0], rows[2][0]),
          Vector3(rows[0][1], rows[1][1], rows[2][1]),
          Vector3(rows[0][2], rows[1][2], rows[2][2])>>)

\* C5: every view x, y, z, xyz, xyzt reads back the vectors assigned to it, and
\* assigning rows to xyz leaves the matrix as assigning their columns to xyzt.
C5_ViewsRoundTrip ==
    /\ op = "set x" => get_x(mat) = vec
    /\ op = "set y" => get_y(mat) = vec
    /\ op = "set z" => get_z(mat) = vec
    /\ op = "set xyz" => (get_xyz(mat) = vec /\ mat = set_xyzt(old, ColumnsOf(vec)))
    /\ op = "set xyzt" => get_xyzt(mat) = vec

\* the n-fold product of m with itself
RECURSIVE Power(_, _)
Power(m, n) == IF n = 0 THEN Identity ELSE Times(Power(m, n - 1), m)

\* C6: for n >= 0, pow(n) and powc(n) give the n-fold product of the original
\* matrix (the identity for n = 0, M for n = 1); powc(a) times powc(b) is
\* powc(a + b); pow(n) returns for every n >= 0.
C6_PowFold ==
    /\ (op = "powc" /\ argN[1] >= 0) =>
            /\ ret.val = Power(old, argN[1])
            /\ \A b \in 0..(MaxExp - argN[1]) :
                    prod(ret.val, powc(old, b)) = powc(old, argN[1] + b)
    /\ (op = "pow" /\ argN[1] >= 0) => mat = Power(old, argN[1])
    /\ op = "init" => \A n \in 0..MaxExp : DOMAIN pow(mat, n) = 0..8

\* powc(3) was called on a singular matrix that is not its own transpose
C6_Witness ==
    /\ op = "powc"
    /\ argN = <<3>>
    /\ det(old) = 0
    /\ old # trans(old)
    /\ ret.val # old
    /\ ret.val = Times(Times(old, old), old)

\* C7: the mutating forms of add, sub, neg, mul, lerp, fill, trans, prod, adj
\* and pow return the receiver; the copying forms return a new instance holding
\* the entries the mutating form computes from the receiver's entries, and
\* leave the receiver unchanged.
C7_DualApi ==
    /\ op \in {"add", "sub", "neg", "mul", "lerp", "fill", "trans", "prod", "adj", "pow"} =>
            ret = RetThis
    /\ op \in {"addc", "subc", "negc", "mulc", "lerpc", "fillc", "transc", "prodc", "adjc", "powc"} =>
            (ret.kind = "new" /\ mat = old)
    /\ op = "addc" => ret.val = add(old, argM.val)
    /\ op = "subc" => ret.val = sub(old, argM.val)
    /\ op = "negc" => ret.val = neg(old)
    /\ op = "mulc" => ret.val = mul(old, argN[1])
    /\ op = "lerpc" => ret.val = lerp(old, argM.val, argN[1])
    /\ op = "fillc" => ret.val = fill(old, argN[1])
    /\ op = "transc" => ret.val = trans(old)
    /\ op = "prodc" => ret.val = prod(old, argM.val)
    /\ op = "adjc" => ret.val = adj(old)
    /\ op = "powc" => ret.val = pow(old, argN[1])

\* lerpc(m, t) was called with another instance m and returned entries that
\* differ from the receiver's
C7_Witness ==
    /\ op = "lerpc"
    /\ ~argM.alias
    /\ old # trans(old)
    /\ ret.kind = "new"
    /\ ret.val # old
    /\ mat = old

\* component i of the product of matrix m by vector u
Applied(m, u, i) == Entry(m, i, 0) * u[0] + Entry(m, i, 1) * u[1] + Entry(m, i, 2) * u[2]

\* C8: at(v) overwrites v with M.v computed from v's original components,
\* returns v and leaves M unchanged; atc(v) returns another vector holding M.v
\* and leaves v and M unchanged; rotZ with cos = 0, sin = 1 maps (1,0,0) to
\* (0,1,0).
C8_At ==
    /\ op = "at" =>
            /\ \A i \in 0..2 : vec[i] = Applied(old, oldv, i)
            /\ ret = RetArg
            /\ mat = old
    /\ op = "atc" =>
            /\ ret.kind = "value"
            /\ \A i \in 0..2 : ret.val[i] = Applied(old, oldv, i)
            /\ vec = oldv
            /\ mat = old
    /\ (op = "at" /\ old = Matrix3_rotZ(0, 1) /\ oldv = Vector3(1, 0, 0)) =>
            vec = Vector3(0, 1, 0)

\* at((1,0,0)) was called on rotZ with cos = 0, sin = 1
C8_Witness ==
    /\ op = "at"
    /\ old = Matrix3_rotZ(0, 1)
    /\ oldv = Vector3(1, 0, 0)
    /\ vec = Vector3(0, 1, 0)
    /\ ret = RetArg

\* row i and column j of the matrix given by the row-major arguments a (a tuple)
RowOf(a, i) == Arr(<<a[3 * i + 1], a[3 * i + 2], a[3 * i + 3]>>)
ColOf(a, j) == Arr(<<a[j + 1], a[3 + j + 1], a[6 + j + 1]>>)

\* C9: after the constructor or assign with row-major arguments a, flat index
\* 3*j+i holds a[3*i+j], row(i) is [a[3i], a[3i+1], a[3i+2]] and col(j) is
\* [a[j], a[3+j], a[6+j]]; e(i, j) has 1 at flat index 3*j+i and 0 elsewhere,
\* and e(1,2).row(1) is [0,0,1].
C9_Layout ==
    /\ op = "init" =>
            \A i \in 0..2, j \in 0..2 :
                /\ mat[3 * j + i] = ctor[3 * i + j + 1]
                /\ row(mat, i) = RowOf(ctor, i)
                /\ col(mat, j) = ColOf(ctor, j)
    /\ op = "assign" =>
            \A i \in 0..2, j \in 0..2 :
                /\ mat[3 * j + i] = argN[3 * i + j + 1]
                /\ row(mat, i) = RowOf(argN, i)
                /\ col(mat, j) = ColOf(argN, j)
    /\ op = "row" => ret.val = RowOf(ctor, argN[1])
    /\ op = "col" => ret.val = ColOf(ctor, argN[1])
    /\ op = "Matrix3.e" =>
            /\ \A n \in 0..8 : ret.val[n] = IF n = 3 * argN[2] + argN[1] THEN 1 ELSE 0
            /\ argN = <<1, 2>> => row(ret.val, 1) = Arr(<<0, 0, 1>>)

\* row(1) was called on the matrix constructed from 1, 2, ..., 9
C9_Witness ==
    /\ op = "row"
    /\ argN = <<1>>
    /\ ctor = <<1, 2, 3, 4, 5, 6, 7, 8, 9>>
    /\ ret.val = Arr(<<4, 5, 6>>)

\* C10: for M and N in different instances the transpose of M x N is the
\* product of the transpose of N by the transpose of M; trans() swaps the
\* index pairs (1,3), (2,6), (5,7) and leaves 0, 4, 8.
C10_TransposeProduct ==
    /\ (op = "prodc" /\ ~argM.alias) =>
            trans(ret.val) = prod(transc(argM.val), transc(old))
    /\ op = "trans" =>
            /\ mat[1] = old[3] /\ mat[3] = old[1]
            /\ mat[2] = old[6] /\ mat[6] = old[2]
            /\ mat[5] = old[7] /\ mat[7] = old[5]
            /\ mat[0] = old[0] /\ mat[4] = old[4] /\ mat[8] = old[8]

\* prodc(N) was called on M with M and N not commuting and neither symmetric
C10_Witness ==
    /\ op = "prodc"
    /\ ~argM.alias
    /\ old # trans(old)
    /\ argM.val # trans(argM.val)
    /\ prod(old, argM.val) # prod(argM.val, old)

\* the scalar matrix s * Identity
ScalarOf(s) == [n \in 0..8 |-> IF n \in {0, 4, 8} THEN s ELSE 0]

\* C11: adj() and adjc() give the classical adjugate: for every M, singular or
\* not, M x adj(M) and adj(M) x M are det(M) * Identity; for invertible M every
\* entry of inv() is the entry of adjc() divided by det(M).
C11_Adjugate ==
    /\ op = "adjc" =>
            /\ prodc(old, ret.val) = ScalarOf(det(old))
            /\ prod(ret.val, old) = ScalarOf(det(old))
    /\ op = "adj" =>
            /\ prod(old, mat) = ScalarOf(det(old))
            /\ prod(mat, old) = ScalarOf(det(old))
    /\ (op = "inv" /\ ret = RetThis) =>
            \A n \in 0..8 : mat[n] * det(old) = adjc(old)[n]

\* adjc() was called on a matrix of determinant -2 that is not its own transpose
C11_Witness ==
    /\ op = "adjc"
    /\ det(old) = 0 - 2
    /\ old # trans(old)
    /\ prod(ret.val, old) = ScalarOf(0 - 2)

\* C12: pow(exp) always returns the receiver; for exp < 0 and det # 0 the
\* receiver becomes the |exp|-fold product of the inverse of its original
\* value; for exp < 0 and det = 0 the failed inversion is ignored and the
\* receiver becomes the |exp|-fold product of its original value (unchanged
\* for exp = -1).
C12_PowNegative ==
    op = "pow" =>
        /\ ret = RetThis
        /\ (argN[1] < 0 /\ det(old) # 0) =>
                LET inverse == invc(old).this
                IN  /\ Times(old, inverse) = Identity
                    /\ Times(inverse, old) = Identity
                    /\ mat = Power(inverse, Abs(argN[1]))
        /\ (argN[1] < 0 /\ det(old) = 0) => mat = Power(old, Abs(argN[1]))
        /\ (argN[1] = 0 - 1 /\ det(old) = 0) => mat = old

\* pow(-2) was called on a singular matrix and left it equal to its square
C12_Witness ==
    /\ op = "pow"
    /\ argN = <<0 - 2>>
    /\ det(old) = 0
    /\ ret = RetThis
    /\ mat = Times(old, old)
    /\ mat # old

\* pow(-3) was called on a matrix of determinant -1 that is not its own inverse
C12_WitnessInvertible ==
    /\ op = "pow"
    /\ argN = <<0 - 3>>
    /\ det(old) = 0 - 1
    /\ Times(old, old) # Identity
    /\ Times(old, Times(old, Times(old, mat))) = Identity

====
